---- MODULE Spec2Model ----
(***************************************************************************)
(* Model of webhook_server.py: a Flask service that verifies a payment     *)
(* gateway webhook and forwards a fixed notification through a messaging   *)
(* bot.  The module-level start-up code, the three route handlers and the  *)
(* scheduled connectivity check are modelled.  A handler run is split     *)
(* where it hands control to the JSON parser and to the bot's send, so     *)
(* that concurrent requests interleave at those points.                    *)
(*                                                                         *)
(* Non-ASCII characters of the source's string literals are written as     *)
(* [U+xxxx].                                                               *)
(***************************************************************************)
EXTENDS Naturals, Sequences, FiniteSets

VARIABLES
    pc_main,                 \* position of the main thread in the module
    config_file,             \* the file at CONFIG_PATH / config.json (environment)
    config,                  \* the dict returned by json.load
    BOT_TOKEN, CHAT_ID, FILE_URL,
    RAZORPAY_KEY_ID, RAZORPAY_KEY_SECRET, RAZORPAY_WEBHOOK_SECRET,
    error,                   \* exception that ended the process ("" if none)
    scheduler,               \* [jobs, running] of the BackgroundScheduler
    listening,               \* app.run has bound the listener
    reqs,                    \* requests dispatched so far, in arrival order
    bot_sends,               \* send_message calls the bot client has received
    probe_log                \* last line logged by check_bot_status

globals == <<BOT_TOKEN, CHAT_ID, FILE_URL,
             RAZORPAY_KEY_ID, RAZORPAY_KEY_SECRET, RAZORPAY_WEBHOOK_SECRET>>
vars == <<pc_main, config_file, config, globals, error, scheduler, listening,
          reqs, bot_sends, probe_log>>

-----------------------------------------------------------------------------
(* A handler run: the request it was dispatched for (route, body, signature      *)
(* header), where it stands, the calls it has made to the verifier and to the    *)
(* JSON parser, its send_message calls, its response, and the exception the     *)
(* broad handler logged.                                                         *)

NewRequest(route, body, header) ==
    [route |-> route, body |-> body, header |-> header, pc |-> "start",
     verify_calls |-> 0, json_calls |-> 0, sent |-> <<>>, resp |-> <<>>, fault |-> ""]

-----------------------------------------------------------------------------
(* Bounds *)

MaxRequests == 2             \* requests dispatched in one run

-----------------------------------------------------------------------------
(* Values *)

None == "<None>"             \* Python's None (dict.get / headers.get default)
Unset == "<unset>"           \* a module global not yet assigned

HTTP_OK == 200
HTTP_BAD_REQUEST == 400
HTTP_FORBIDDEN == 403
HTTP_SERVER_ERROR == 500

ConfigKeys == {"telegram_bot_token", "telegram_chat_id", "s3_file_url",
               "razorpay_key_id", "razorpay_key_secret", "razorpay_webhook_secret"}

\* Values a key of the config file may carry (None: the key is absent).
KeyValues(k) ==
    IF k = "s3_file_url" THEN {None, "", "https://s3/file-a", "https://s3/file-b"}
    ELSE IF k = "telegram_chat_id" THEN {None, "", "chat-1"}
    ELSE IF k = "telegram_bot_token" THEN {None, "", "bot-token"}
    ELSE IF k = "razorpay_key_id" THEN {None, "", "rzp-key-id"}
    ELSE IF k = "razorpay_key_secret" THEN {None, "", "rzp-key-secret"}
    ELSE {None, "", "whsec"}

NoKeys == [k \in ConfigKeys |-> None]

\* The config file as found at start-up.
ConfigFiles ==
    {[kind |-> "missing", keys |-> NoKeys],
     [kind |-> "invalid_json", keys |-> NoKeys],
     [kind |-> "not_object", keys |-> NoKeys]}
    \cup {[kind |-> "object", keys |-> f] :
            f \in {g \in [ConfigKeys -> UNION {KeyValues(k) : k \in ConfigKeys}] :
                     \A k \in ConfigKeys : g[k] \in KeyValues(k)}}

\* Python truthiness of a config value (None and "" are falsy).
Truthy(v) == v # None /\ v # ""

\* A validation that forgets the webhook secret.
AllConfiguredButSecret(token, chat, url, kid, ksecret, whsecret) ==
    Truthy(token) /\ Truthy(chat) /\ Truthy(url) /\ Truthy(kid) /\ Truthy(ksecret)

\* line 47: all([...]) over the six globals.
AllConfigured(token, chat, url, kid, ksecret, whsecret) ==
    Truthy(token) /\ Truthy(chat) /\ Truthy(url) /\ Truthy(kid)
    /\ Truthy(ksecret) /\ Truthy(whsecret)

-----------------------------------------------------------------------------
(* Start-up: module-level code and the __main__ block *)

Init ==
    /\ pc_main = "load_config"
    /\ config_file \in ConfigFiles
    /\ config = NoKeys
    /\ BOT_TOKEN = Unset /\ CHAT_ID = Unset /\ FILE_URL = Unset
    /\ RAZORPAY_KEY_ID = Unset /\ RAZORPAY_KEY_SECRET = Unset
    /\ RAZORPAY_WEBHOOK_SECRET = Unset
    /\ error = ""
    /\ scheduler = [jobs |-> {}, running |-> FALSE]
    /\ listening = FALSE
    /\ reqs = <<>>
    /\ bot_sends = 0
    /\ probe_log = ""

Fatal(e) ==
    /\ pc_main' = "fatal"
    /\ error' = e

\* lines 25-44: open + json.load, then the six config.get assignments.
LoadConfig ==
    /\ pc_main = "load_config"
    /\ \/ /\ config_file.kind = "missing"
          /\ Fatal("FileNotFoundError")
          /\ UNCHANGED <<config, globals>>
       \/ /\ config_file.kind = "invalid_json"
          /\ Fatal("JSONDecodeError")
          /\ UNCHANGED <<config, globals>>
       \/ /\ config_file.kind = "not_object"
          /\ Fatal("AttributeError")          \* config.get on a non-dict
          /\ UNCHANGED <<config, globals>>
       \/ /\ config_file.kind = "object"
          /\ config' = config_file.keys
          /\ BOT_TOKEN' = config_file.keys["telegram_bot_token"]
          /\ CHAT_ID' = config_file.keys["telegram_chat_id"]
          /\ FILE_URL' = config_file.keys["s3_file_url"]
          /\ RAZORPAY_KEY_ID' = config_file.keys["razorpay_key_id"]
          /\ RAZORPAY_KEY_SECRET' = config_file.keys["razorpay_key_secret"]
          /\ RAZORPAY_WEBHOOK_SECRET' = config_file.keys["razorpay_webhook_secret"]
          /\ pc_main' = "validate"
          /\ UNCHANGED error
    /\ UNCHANGED <<config_file, scheduler, listening, reqs, bot_sends, probe_log>>

\* lines 46-49
ValidateConfig ==
    /\ pc_main = "validate"
    /\ IF AllConfigured(BOT_TOKEN, CHAT_ID, FILE_URL, RAZORPAY_KEY_ID,
                        RAZORPAY_KEY_SECRET, RAZORPAY_WEBHOOK_SECRET)
       THEN pc_main' = "init_clients" /\ UNCHANGED error
       ELSE Fatal("ValueError")
    /\ UNCHANGED <<config_file, config, globals, scheduler, listening, reqs, bot_sends, probe_log>>

\* lines 51-66: telegram.Bot(...), razorpay.Client(...), BackgroundScheduler(...);
\* either constructor may raise, which is logged and re-raised.
InitClients ==
    /\ pc_main = "init_clients"
    /\ \/ pc_main' = "main" /\ UNCHANGED error
       \/ Fatal("BotInitError")
       \/ Fatal("ClientInitError")
    /\ UNCHANGED <<config_file, config, globals, scheduler, listening, reqs, bot_sends, probe_log>>

\* lines 147-153: add_job + start; a failure is logged and swallowed.
StartScheduler ==
    /\ pc_main = "main"
    /\ \/ scheduler' = [jobs |-> {"check_bot_status"}, running |-> TRUE]
       \/ UNCHANGED scheduler
    /\ pc_main' = "app_run"
    /\ UNCHANGED <<config_file, config, globals, error, listening, reqs, bot_sends, probe_log>>

\* line 156: int(os.getenv('PORT', 5000)) may raise; otherwise the listener binds.
AppRun ==
    /\ pc_main = "app_run"
    /\ \/ /\ listening' = TRUE
          /\ pc_main' = "serving"
          /\ UNCHANGED error
       \/ /\ Fatal("ValueError")
          /\ UNCHANGED listening
    /\ UNCHANGED <<config_file, config, globals, scheduler, reqs, bot_sends, probe_log>>

-----------------------------------------------------------------------------
(* Requests *)

WEBHOOK == "/webhook"
TEST_PAYMENT == "/test-payment"
HOME == "/"

TARGET_EVENT == "payment.captured"
TRIGGER_PHRASE == "Paid [U+1F4B8]"

\* Raw request bodies (text as received).
B_CAPTURED == "{\"event\":\"payment.captured\"}"
B_FAILED == "{\"event\":\"payment.failed\"}"
B_EMPTY_OBJECT == "{}"
B_ARRAY == "[]"
B_NOT_JSON == "event=payment.captured"
B_PAID == "{\"text\":\"Paid \\ud83d\\udcb8\"}"
B_OTHER_TEXT == "{\"text\":\"Paid\"}"

WebhookBodies == {B_CAPTURED, B_FAILED, B_EMPTY_OBJECT, B_ARRAY, B_NOT_JSON}
TestBodies == {B_PAID, B_OTHER_TEXT, B_EMPTY_OBJECT, B_ARRAY, B_NOT_JSON}

\* request.get_json() on a body sent as application/json: a JSON object is a set
\* of <<key, value>> pairs; any other JSON value has no .get; text that is not
\* JSON makes get_json raise.
ParseJson(body) ==
    CASE body = B_CAPTURED -> [kind |-> "object", fields |-> {<<"event", "payment.captured">>}]
      [] body = B_FAILED -> [kind |-> "object", fields |-> {<<"event", "payment.failed">>}]
      [] body = B_PAID -> [kind |-> "object", fields |-> {<<"text", "Paid [U+1F4B8]">>}]
      [] body = B_OTHER_TEXT -> [kind |-> "object", fields |-> {<<"text", "Paid">>}]
      [] body = B_EMPTY_OBJECT -> [kind |-> "object", fields |-> {}]
      [] body = B_ARRAY -> [kind |-> "array", fields |-> {}]
      [] OTHER -> [kind |-> "invalid", fields |-> {}]

\* dict.get(key): the value, or None when the key is absent.
DictGet(fields, key) ==
    IF \E p \in fields : p[1] = key
    THEN (CHOOSE p \in fields : p[1] = key)[2]
    ELSE None

\* The X-Razorpay-Signature header as headers.get returns it.
NoHeader == [present |-> FALSE, value |-> <<>>]
Header(v) == [present |-> TRUE, value |-> v]

\* The hex digest of HMAC-SHA256(key, body): distinct (key, body) pairs give
\* distinct digests.
Hmac(body, key) == <<key, body>>

SigningKeys == {"whsec", "attacker-key"}

\* Headers a caller may attach to a body: none, an empty one, or the body
\* signed with some key.
HeadersFor(body) ==
    {NoHeader, Header(<<>>)} \cup {Header(Hmac(body, k)) : k \in SigningKeys}

\* A verifier that accepts every signature.
VerifyAcceptAll(body, signature, secret) == "ok"

\* lines 87-91: client.utility.verify_webhook_signature returns on a match and
\* raises SignatureVerificationError otherwise.
verify_webhook_signature(body, signature, secret) ==
    IF signature = Hmac(body, secret) THEN "ok" ELSE "SignatureVerificationError"

\* A header test that lets every request through to the verifier.
HeaderNeverMissing(h) == FALSE

\* line 81: not webhook_signature (None or the empty string).
HeaderMissing(h) == ~h.present \/ h.value = <<>>

\* jsonify({key: value})
Jsonify(key, value) == <<"application/json", key, value>>
Text(s) == <<"text/html", s>>

\* line 108
WebhookMessage(file_url) ==
    <<"Thanks for the payment [U+1F618]\nHere[U+2019]s your file: ", file_url>>

\* line 129
TestMessage(file_url) ==
    <<"Thanks for the payment \nHere[U+2019]s your file: ", file_url>>

\* Outcomes of the (blocking) call bot.send_message: it returns, raises a
\* TelegramError, or raises something else.
SendOutcomes == {"ok", "TelegramError", "Exception"}

\* One call of bot.send_message(chat_id=..., text=...) with its outcome.
SendAttempt(chat_id, text, result) ==
    [chat_id |-> chat_id, text |-> text, result |-> result]

\* Flask dispatches a request to its handler, which runs up to its first
\* external call and is then in r.
Dispatch(r) ==
    /\ listening
    /\ Len(reqs) < MaxRequests
    /\ reqs' = Append(reqs, r)
    /\ bot_sends' = bot_sends + Len(r.sent)
    /\ UNCHANGED <<pc_main, config_file, config, globals, error, scheduler, listening,
                   probe_log>>

\* A request object shared by the whole process: the most recently dispatched one.
request_global(i) ==
    [body |-> reqs[Len(reqs)].body, header |-> reqs[Len(reqs)].header]

\* flask.request inside handler run i: the context-local proxy resolves to the
\* request that this run was dispatched for.
request(i) ==
    [body |-> reqs[i].body, header |-> reqs[i].header]

\* return body, status
Return(r, status, body) ==
    [r EXCEPT !.pc = "done", !.resp = Append(@, [body |-> body, status |-> status])]

\* A broad handler that reports the exception to the caller.
ServerErrorLeaking(r, e) ==
    [Return(r, HTTP_SERVER_ERROR, Jsonify("error", e)) EXCEPT !.fault = e]

\* lines 119-121 / 134-136: the broad handler logs the exception and answers 500.
ServerError(r, e) ==
    [Return(r, HTTP_SERVER_ERROR, Jsonify("error", "Server error")) EXCEPT !.fault = e]

\* A later step of handler run i, leaving it in r; the bot client counts the
\* send_message calls the step made.
Step(i, r) ==
    /\ reqs' = [reqs EXCEPT ![i] = r]
    /\ bot_sends' = bot_sends + (Len(r.sent) - Len(reqs[i].sent))
    /\ UNCHANGED <<pc_main, config_file, config, globals, error, scheduler, listening,
                   probe_log>>

\* line 71
HomeReturned(r) ==
    Return(r, HTTP_OK, Text("[U+1F496] Kitty Webhook is alive [U+1F496]"))

\* lines 68-71
home ==
    Dispatch(HomeReturned(NewRequest(HOME, "", NoHeader)))

\* A handler that parses the body before it verifies the signature.
WebhookVerifiedAfterParse(r, req) ==
    IF HeaderMissing(req.header)
    THEN Return(r, HTTP_BAD_REQUEST, Jsonify("error", "Missing signature"))
    ELSE IF ParseJson(req.body).kind = "invalid"
    THEN Return([r EXCEPT !.json_calls = @ + 1], HTTP_BAD_REQUEST,
                Jsonify("error", "Invalid JSON"))
    ELSE LET v == verify_webhook_signature(req.body, req.header.value,
                                           RAZORPAY_WEBHOOK_SECRET)
             r1 == [r EXCEPT !.verify_calls = @ + 1]
         IN IF v = "ok"
            THEN [r1 EXCEPT !.pc = "verified"]
            ELSE Return(r1, HTTP_FORBIDDEN, Jsonify("error", "Invalid signature"))

\* lines 78-94: read body and header, reject a missing header, verify.
WebhookVerified(r, req) ==
    IF HeaderMissing(req.header)
    THEN Return(r, HTTP_BAD_REQUEST, Jsonify("error", "Missing signature"))
    ELSE LET v == verify_webhook_signature(req.body, req.header.value,
                                           RAZORPAY_WEBHOOK_SECRET)
             r1 == [r EXCEPT !.verify_calls = @ + 1]
         IN IF v = "ok"
            THEN [r1 EXCEPT !.pc = "verified"]
            ELSE Return(r1, HTTP_FORBIDDEN, Jsonify("error", "Invalid signature"))

webhook_verify ==
    \E b \in WebhookBodies : \E h \in HeadersFor(b) :
        Dispatch(WebhookVerified(NewRequest(WEBHOOK, b, h), [body |-> b, header |-> h]))

\* An event test that also fires when the payload has no event field.
IsTargetEventOrAbsent(fields) ==
    DictGet(fields, "event") \in {TARGET_EVENT, None}

\* line 106
IsTargetEvent(fields) == DictGet(fields, "event") = TARGET_EVENT

\* lines 96-106, 116-117: parse, then branch on the event field; get_json raising
\* is answered 400, data.get on a non-dict falls to the broad handler.
WebhookParsed(r, req) ==
    LET data == ParseJson(req.body)
        r1 == [r EXCEPT !.json_calls = @ + 1]
    IN IF data.kind = "invalid"
       THEN Return(r1, HTTP_BAD_REQUEST, Jsonify("error", "Invalid JSON"))
       ELSE IF data.kind # "object"
       THEN ServerError(r1, "AttributeError")
       ELSE IF IsTargetEvent(data.fields)
       THEN [r1 EXCEPT !.pc = "sending"]
       ELSE Return(r1, HTTP_OK, Jsonify("status", "Ignored"))

webhook_parse(i) ==
    /\ reqs[i].route = WEBHOOK /\ reqs[i].pc = "verified"
    /\ Step(i, WebhookParsed(reqs[i], request(i)))

\* A send that is tried a second time when the first attempt raises.
DeliverWithRetry(r, chat, text, outcome) ==
    IF outcome = "ok"
    THEN [r EXCEPT !.sent = Append(@, SendAttempt(chat, text, outcome))]
    ELSE [r EXCEPT !.sent = @ \o <<SendAttempt(chat, text, outcome),
                                   SendAttempt(chat, text, outcome)>>]

\* lines 109 / 130: bot.send_message is called once.
Deliver(r, chat, text, outcome) ==
    [r EXCEPT !.sent = Append(@, SendAttempt(chat, text, outcome))]

\* lines 107-114: send; a TelegramError has its own 500, anything else falls to
\* the broad handler.
WebhookSent(r, outcome) ==
    LET r1 == Deliver(r, CHAT_ID, WebhookMessage(FILE_URL), outcome)
    IN IF outcome = "ok"
       THEN Return(r1, HTTP_OK, Jsonify("status", "Message sent"))
       ELSE IF outcome = "TelegramError"
       THEN Return(r1, HTTP_SERVER_ERROR, Jsonify("error", "Failed to send message"))
       ELSE ServerError(r1, outcome)

webhook_send(i) ==
    /\ reqs[i].route = WEBHOOK /\ reqs[i].pc = "sending"
    /\ \E o \in SendOutcomes : Step(i, WebhookSent(reqs[i], o))

\* A trigger test that accepts the phrase without its emoji as well.
IsTriggerLoose(fields) ==
    DictGet(fields, "text") \in {TRIGGER_PHRASE, "Paid"}

\* line 128
IsTrigger(fields) == DictGet(fields, "text") = TRIGGER_PHRASE

\* lines 127-128, 133-136: get_json raising and data.get on a non-dict both fall
\* to the broad handler.
TestParsed(r, req) ==
    LET data == ParseJson(req.body)
        r1 == [r EXCEPT !.json_calls = @ + 1]
    IN IF data.kind = "invalid"
       THEN ServerError(r1, "BadRequest")
       ELSE IF data.kind # "object"
       THEN ServerError(r1, "AttributeError")
       ELSE IF IsTrigger(data.fields)
       THEN [r1 EXCEPT !.pc = "sending"]
       ELSE Return(r1, HTTP_BAD_REQUEST, Jsonify("status", "Ignored"))

test_payment_parse ==
    \E b \in TestBodies :
        Dispatch(TestParsed(NewRequest(TEST_PAYMENT, b, NoHeader),
                            [body |-> b, header |-> NoHeader]))

\* lines 129-136
TestSent(r, outcome) ==
    LET r1 == Deliver(r, CHAT_ID, TestMessage(FILE_URL), outcome)
    IN IF outcome = "ok"
       THEN Return(r1, HTTP_OK, Jsonify("status", "Message sent"))
       ELSE ServerError(r1, outcome)

test_payment_send(i) ==
    /\ reqs[i].route = TEST_PAYMENT /\ reqs[i].pc = "sending"
    /\ \E o \in SendOutcomes : Step(i, TestSent(reqs[i], o))

\* lines 138-144: bot.get_me() and one log line; nothing else is touched.
check_bot_status ==
    /\ scheduler.running /\ "check_bot_status" \in scheduler.jobs
    /\ \E line \in {"Telegram bot is online", "Bot connectivity check failed"} :
          probe_log' = line
    /\ UNCHANGED <<pc_main, config_file, config, globals, error, scheduler, listening,
                   reqs, bot_sends>>

Next ==
    \/ LoadConfig
    \/ ValidateConfig
    \/ InitClients
    \/ StartScheduler
    \/ AppRun
    \/ home
    \/ webhook_verify
    \/ \E i \in 1..Len(reqs) : webhook_parse(i)
    \/ \E i \in 1..Len(reqs) : webhook_send(i)
    \/ test_payment_parse
    \/ \E i \in 1..Len(reqs) : test_payment_send(i)
    \/ check_bot_status

Spec == Init /\ [][Next]_vars

-----------------------------------------------------------------------------
(* The handlers run start to finish, with nothing else running *)

\* lines 73-121: the webhook handler on request req, its send (if any) ending in outcome.
webhook(req, outcome) ==
    LET a == WebhookVerified(NewRequest(WEBHOOK, req.body, req.header), req)
    IN IF a.pc = "done" THEN a
       ELSE LET b == WebhookParsed(a, req)
            IN IF b.pc = "done" THEN b ELSE WebhookSent(b, outcome)

\* lines 123-136
test_payment(req, outcome) ==
    LET a == TestParsed(NewRequest(TEST_PAYMENT, req.body, req.header), req)
    IN IF a.pc = "done" THEN a ELSE TestSent(a, outcome)

-----------------------------------------------------------------------------
(* Properties *)

Requests == 1..Len(reqs)
Done(r) == r.pc = "done"
Response(status, key, value) ==
    <<[body |-> <<"application/json", key, value>>, status |-> status]>>

\* The value the config file gives to key k.
FileValue(k) == config_file.keys[k]

\* The parsed payload of a body, and what dict.get finds in it.
PayloadKind(body) == ParseJson(body).kind
PayloadValue(body, key) == DictGet(ParseJson(body).fields, key)

\* The header carries the digest of the body under the configured secret.
SignatureMatches(r) ==
    /\ r.header.present
    /\ r.header.value = Hmac(r.body, FileValue("razorpay_webhook_secret"))

RECURSIVE SendCalls(_)
SendCalls(n) == IF n = 0 THEN 0 ELSE Len(reqs[n].sent) + SendCalls(n - 1)

\* C1: a /webhook request sends a message only if its signature header is present,
\* matches the body under the shared secret, and the payload's event is
\* payment.captured; when that send succeeds the response is 200
\* {"status":"Message sent"} and exactly one message went out, to the configured chat.
C1_SendOnlyOnVerifiedCapture ==
    \A i \in Requests :
        LET r == reqs[i] IN
        r.route = WEBHOOK =>
            /\ r.sent # <<>> =>
                  /\ SignatureMatches(r)
                  /\ PayloadKind(r.body) = "object"
                  /\ PayloadValue(r.body, "event") = "payment.captured"
            /\ (Done(r) /\ r.sent # <<>> /\ r.sent[1].result = "ok") =>
                  /\ r.resp = Response(200, "status", "Message sent")
                  /\ Len(r.sent) = 1
                  /\ r.sent[1].chat_id = FileValue("telegram_chat_id")

C1_Witness ==
    \E i \in Requests :
        /\ reqs[i].route = WEBHOOK /\ Done(reqs[i])
        /\ reqs[i].sent # <<>> /\ reqs[i].sent[1].result = "ok"

\* C2 as stated: every /webhook request that passes the signature check and whose
\* body is JSON with an event different from payment.captured (or with no event
\* field at all) is answered 200 "Ignored" and sends nothing.
C2_AnyOtherPayloadIgnored ==
    \A i \in Requests :
        LET r == reqs[i] IN
        (/\ r.route = WEBHOOK /\ Done(r) /\ SignatureMatches(r)
         /\ PayloadKind(r.body) # "invalid"
         /\ PayloadValue(r.body, "event") # "payment.captured") =>
            /\ r.resp = Response(200, "status", "Ignored")
            /\ r.sent = <<>>

\* C2 amended: every /webhook request that passes the signature check and whose
\* body is a JSON object with an event different from payment.captured (or with no
\* event field) is answered 200 "Ignored" and sends nothing.
C2_OtherEventObjectIgnored ==
    \A i \in Requests :
        LET r == reqs[i] IN
        (/\ r.route = WEBHOOK /\ Done(r) /\ SignatureMatches(r)
         /\ PayloadKind(r.body) = "object"
         /\ PayloadValue(r.body, "event") # "payment.captured") =>
            /\ r.resp = Response(200, "status", "Ignored")
            /\ r.sent = <<>>

C2_Witness ==
    /\ \E i \in Requests :
          /\ reqs[i].route = WEBHOOK /\ Done(reqs[i]) /\ SignatureMatches(reqs[i])
          /\ reqs[i].body = B_EMPTY_OBJECT
    /\ \E i \in Requests :
          /\ reqs[i].route = WEBHOOK /\ Done(reqs[i]) /\ SignatureMatches(reqs[i])
          /\ reqs[i].body = B_FAILED

\* C3: a /webhook request whose signature header is present but does not match is
\* answered 403 and sends nothing, whatever its body; the body is never parsed.
C3_BadSignatureForbidden ==
    \A i \in Requests :
        LET r == reqs[i] IN
        (/\ r.route = WEBHOOK
         /\ r.header.present /\ r.header.value # <<>>
         /\ ~SignatureMatches(r)) =>
            /\ r.sent = <<>>
            /\ r.json_calls = 0
            /\ Done(r)
            /\ r.resp = Response(403, "error", "Invalid signature")

C3_Witness ==
    /\ \E i \in Requests :
          /\ reqs[i].route = WEBHOOK /\ Done(reqs[i]) /\ reqs[i].body = B_NOT_JSON
          /\ reqs[i].header.value # <<>> /\ ~SignatureMatches(reqs[i])
    /\ \E i \in Requests :
          /\ reqs[i].route = WEBHOOK /\ Done(reqs[i]) /\ reqs[i].body = B_CAPTURED
          /\ reqs[i].header.value # <<>> /\ ~SignatureMatches(reqs[i])

\* C4: a /webhook request without the signature header is answered 400, and at no
\* point of its handling is the verifier called, the body parsed or a message sent.
C4_MissingHeaderBeforeVerify ==
    \A i \in Requests :
        LET r == reqs[i] IN
        (r.route = WEBHOOK /\ ~r.header.present) =>
            /\ r.verify_calls = 0
            /\ r.json_calls = 0
            /\ r.sent = <<>>
            /\ Done(r)
            /\ r.resp = Response(400, "error", "Missing signature")

C4_Witness ==
    \E i \in Requests :
        /\ reqs[i].route = WEBHOOK /\ Done(reqs[i]) /\ ~reqs[i].header.present
        /\ reqs[i].body = B_CAPTURED

\* C5 as stated: /test-payment with a JSON object whose text is the trigger phrase
\* makes a send and returns 200; any other text (or none) returns 400 "Ignored" and
\* sends nothing.
C5_TriggerAlways200 ==
    \A i \in Requests :
        LET r == reqs[i] IN
        (r.route = TEST_PAYMENT /\ Done(r) /\ PayloadKind(r.body) = "object") =>
            IF PayloadValue(r.body, "text") = "Paid [U+1F4B8]"
            THEN Len(r.sent) = 1 /\ r.resp[1].status = 200
            ELSE r.resp = Response(400, "status", "Ignored") /\ r.sent = <<>>

\* C5 amended: /test-payment with a JSON object whose text is the trigger phrase
\* makes exactly one send, and returns 200 "Message sent" when that send succeeds
\* and 500 "Server error" when it raises; any other text (or none) returns 400
\* "Ignored" and sends nothing.
C5_TriggerSendsOnce ==
    \A i \in Requests :
        LET r == reqs[i] IN
        (r.route = TEST_PAYMENT /\ Done(r) /\ PayloadKind(r.body) = "object") =>
            IF PayloadValue(r.body, "text") = "Paid [U+1F4B8]"
            THEN /\ Len(r.sent) = 1
                 /\ r.sent[1].chat_id = FileValue("telegram_chat_id")
                 /\ IF r.sent[1].result = "ok"
                    THEN r.resp = Response(200, "status", "Message sent")
                    ELSE r.resp = Response(500, "error", "Server error")
            ELSE r.resp = Response(400, "status", "Ignored") /\ r.sent = <<>>

C5_Witness ==
    /\ \E i \in Requests :
          /\ reqs[i].route = TEST_PAYMENT /\ Done(reqs[i]) /\ reqs[i].body = B_PAID
          /\ reqs[i].sent[1].result = "ok"
    /\ \E i \in Requests :
          /\ reqs[i].route = TEST_PAYMENT /\ Done(reqs[i])
          /\ reqs[i].body \in {B_OTHER_TEXT, B_EMPTY_OBJECT}

\* C6: the message /test-payment sends on the trigger phrase has the same text and
\* the same recipient as the message /webhook sends on a verified payment.captured.
C6_SameNotification ==
    \A i, j \in Requests :
        (/\ reqs[i].route = WEBHOOK /\ reqs[i].sent # <<>>
         /\ reqs[j].route = TEST_PAYMENT /\ reqs[j].sent # <<>>) =>
            /\ reqs[i].sent[1].text = reqs[j].sent[1].text
            /\ reqs[i].sent[1].chat_id = reqs[j].sent[1].chat_id

\* C7: nothing is retried.  A /webhook send that raises TelegramError is answered
\* 500 after exactly one attempt; every request makes at most one send attempt; and
\* the bot receives no send_message call other than those attempts, so none from
\* the scheduled check.
C7_NoRetry ==
    /\ \A i \in Requests :
          LET r == reqs[i] IN
          /\ Len(r.sent) <= 1
          /\ (r.route = WEBHOOK /\ r.sent # <<>> /\ r.sent[1].result = "TelegramError") =>
                r.resp = Response(500, "error", "Failed to send message")
    /\ bot_sends = SendCalls(Len(reqs))

C7_Witness ==
    /\ probe_log = "Bot connectivity check failed"
    /\ \E i \in Requests :
          /\ reqs[i].route = WEBHOOK /\ Done(reqs[i])
          /\ reqs[i].sent # <<>> /\ reqs[i].sent[1].result = "TelegramError"

\* The request ran into a case its handler has no explicit answer for.
Unhandled(r) ==
    \/ /\ r.route = WEBHOOK /\ r.json_calls > 0 /\ PayloadKind(r.body) = "array"
    \/ /\ r.route = TEST_PAYMENT /\ PayloadKind(r.body) \in {"invalid", "array"}
    \/ /\ r.route = WEBHOOK /\ r.sent # <<>> /\ r.sent[1].result = "Exception"
    \/ /\ r.route = TEST_PAYMENT /\ r.sent # <<>> /\ r.sent[1].result # "ok"

\* C8: a request that hits a fault its handler does not handle explicitly ends with
\* 500 and the fixed body {"error":"Server error"}, whatever the fault was; and a
\* request has no response until it ends, and then exactly one, with status 200,
\* 400, 403 or 500.
C8_GenericServerError ==
    \A i \in Requests :
        LET r == reqs[i] IN
        /\ ~Done(r) => r.resp = <<>>
        /\ Done(r) =>
              /\ Len(r.resp) = 1
              /\ r.resp[1].status \in {200, 400, 403, 500}
              /\ Unhandled(r) => r.resp = Response(500, "error", "Server error")
              /\ r.fault # "" => r.resp = Response(500, "error", "Server error")

C8_Witness ==
    /\ \E i \in Requests :
          /\ reqs[i].route = WEBHOOK /\ Done(reqs[i]) /\ reqs[i].fault = "AttributeError"
    /\ \E i \in Requests :
          /\ reqs[i].route = TEST_PAYMENT /\ Done(reqs[i]) /\ reqs[i].fault = "BadRequest"

\* The config file exists, is a JSON object and gives all six keys a non-empty value.
ConfigComplete ==
    /\ config_file.kind = "object"
    /\ \A k \in ConfigKeys : FileValue(k) # None /\ FileValue(k) # ""

\* C9: with a missing or unparsable config file, or any of the six keys empty or
\* absent, start-up stops with a fatal error before the scheduler is started, the
\* listener bound or a request served; the listener is bound only when all six
\* values are non-empty.
C9_NoStartWithoutConfig ==
    /\ ~ConfigComplete =>
          /\ pc_main \in {"load_config", "validate", "fatal"}
          /\ ~listening /\ ~scheduler.running /\ scheduler.jobs = {} /\ reqs = <<>>
          /\ pc_main = "fatal" =>
                error \in {"FileNotFoundError", "JSONDecodeError", "AttributeError",
                           "ValueError"}
    /\ listening => ConfigComplete

C9_Witness ==
    /\ pc_main = "fatal" /\ error = "ValueError"
    /\ config_file.kind = "object"
    /\ FileValue("razorpay_webhook_secret") = ""
    /\ \A k \in ConfigKeys \ {"razorpay_webhook_secret"} :
          FileValue(k) # None /\ FileValue(k) # ""

\* C10: under every interleaving, a finished request is exactly what its handler
\* produces when run alone on that request's own body and header with the outcome of
\* its own send; and once loaded, the configuration globals keep the values of the
\* config file.
C10_RequestsIndependent ==
    /\ \A i \in Requests :
          LET r == reqs[i]
              o == IF r.sent # <<>> THEN r.sent[1].result ELSE "ok"
              q == [body |-> r.body, header |-> r.header]
          IN Done(r) =>
                r = (IF r.route = WEBHOOK THEN webhook(q, o)
                     ELSE IF r.route = TEST_PAYMENT THEN test_payment(q, o)
                     ELSE HomeReturned(NewRequest(HOME, r.body, r.header)))
    /\ pc_main \notin {"load_config", "fatal"} =>
          /\ config = config_file.keys
          /\ BOT_TOKEN = FileValue("telegram_bot_token")
          /\ CHAT_ID = FileValue("telegram_chat_id")
          /\ FILE_URL = FileValue("s3_file_url")
          /\ RAZORPAY_KEY_ID = FileValue("razorpay_key_id")
          /\ RAZORPAY_KEY_SECRET = FileValue("razorpay_key_secret")
          /\ RAZORPAY_WEBHOOK_SECRET = FileValue("razorpay_webhook_secret")

\* The second request was dispatched while the first was being handled, and ran
\* to its end, send included, before the first one finished.
C10_Witness ==
    /\ Len(reqs) >= 2
    /\ reqs[1].route = WEBHOOK /\ reqs[1].pc = "sending"
    /\ reqs[2].route = TEST_PAYMENT /\ Done(reqs[2]) /\ reqs[2].sent # <<>>
    /\ probe_log # ""

====
